---- MODULE Spec2Model ----
(***************************************************************************)
(* Model of src/src/raster.py: the Raster class, its generate_tiles and    *)
(* merge_tiles methods and the save helper.                                *)
(*                                                                         *)
(* A raster is a width x height grid of pixel values with an affine        *)
(* transform (a, b, c, d, e, f): worldX = a*col + b*row + c,               *)
(* worldY = d*col + e*row + f.  The file system is the tile folder (a set  *)
(* of files) and the file at merge_tiles' output_path.  Every call of the  *)
(* raster I/O library (open, read, write) either succeeds or raises.       *)
(***************************************************************************)
EXTENDS Integers, Sequences, FiniteSets, TLC

\* ---------------------------------------------------------------- bounds
MaxDim == 3
MaxTile == 3
MaxPerm == 3

\* generate_tiles' default tile_size
DefaultTileSize == 1024

\* The value rasterio.merge fills the mosaic with when the first dataset
\* declares no nodata value.
NoData == 0

VARIABLES
    width, height, transform, pat,   \* the Raster object (self) and its pixels
    preexisting,                     \* the tile folder's files before any call
    folderExists, folder,            \* the tile folder now
    tile_size,                       \* generate_tiles' argument
    gtStatus, ci, ri, gtError, failedAt, srcOpen, windows,
    mtStatus, filepaths, handles, mtError, logged, output

vars == <<width, height, transform, pat, preexisting, folderExists, folder,
          tile_size, gtStatus, ci, ri, gtError, failedAt, srcOpen, windows,
          mtStatus, filepaths, handles, mtError, logged, output>>

rasterVars == <<width, height, transform, pat, preexisting>>
gtVars == <<tile_size, gtStatus, ci, ri, gtError, failedAt, srcOpen, windows>>
mtVars == <<mtStatus, filepaths, handles, mtError, logged, output>>

\* ------------------------------------------------------------ the raster
Affine(a, b, c, d, e, f) == [a |-> a, b |-> b, c |-> c, d |-> d, e |-> e, f |-> f]

\* Transforms a raster file can carry: north-up with unit pixels, north-up
\* with an origin and non-square pixels, the identity of a file without
\* georeferencing, and a rotated one.
Transforms ==
    { Affine(1, 0, 0, 0, -1, 0), Affine(2, 0, 10, 0, -3, 20),
      Affine(1, 0, 0, 0, 1, 0), Affine(2, 1, 10, 1, -2, 20) }

\* The pixel value at (col, row) of the raster with pixel pattern p.
Pixel(p, col, row) ==
    CASE p = 0 -> (col + 2 * row) % 3
      [] p = 1 -> 1 + ((col + row) % 2)
      [] p = 2 -> 3
      [] p = 3 -> IF col = 0 THEN 0 ELSE 4
      [] OTHER -> 5

\* An array read from a raster is kept as the window it was read from;
\* DataAt gives its element at (x, y).
DataAt(data, x, y) == Pixel(data.pat, data.col_off + x, data.row_off + y)

\* worldX, worldY of pixel (col, row) under transform t
WorldX(t, col, row) == t.a * col + t.b * row + t.c
WorldY(t, col, row) == t.d * col + t.e * row + t.f

\* ----------------------------------------------------------- file names
RECURSIVE DecDigits(_)
DecDigits(n) == IF n < 10 THEN <<n>> ELSE Append(DecDigits(n \div 10), n % 10)

\* format(n, "05d"): decimal, zero-padded on the left to at least 5 digits
Pad5(n) ==
    LET ds == DecDigits(n)
    IN  IF Len(ds) >= 5 THEN ds ELSE [k \in 1..(5 - Len(ds)) |-> 0] \o ds

\* self._ext
Ext == <<".", "t", "i", "f">>

\* f"tile_x{i:05d}_y{j:05d}.{self._ext}"
TileName(i, j) == [stem |-> "tile", x |-> Pad5(i), y |-> Pad5(j), suffix |-> <<".">> \o Ext]

PlainName(stem, suffix) == [stem |-> stem, x |-> <<>>, y |-> <<>>, suffix |-> suffix]

\* glob's "*.tif": the name ends with ".tif"
GlobMatch(name) ==
    /\ Len(name.suffix) >= 4
    /\ SubSeq(name.suffix, Len(name.suffix) - 3, Len(name.suffix)) = <<".", "t", "i", "f">>

\* ------------------------------------------------------- generate_tiles
\* Python's range(start, stop, step) for step # 0, as a sequence
RangeLen(start, stop, step) ==
    IF step > 0
    THEN (IF stop > start THEN (stop - start + step - 1) \div step ELSE 0)
    ELSE (IF stop < start THEN (start - stop + (-step) - 1) \div (-step) ELSE 0)

RangeShort(start, stop, step) == [k \in 1..RangeLen(start, stop - 1, step) |-> start + (k - 1) * step]

Range(start, stop, step) == [k \in 1..RangeLen(start, stop, step) |-> start + (k - 1) * step]

Cols == Range(0, width, tile_size)
Rows == Range(0, height, tile_size)

Min2(x, y) == IF x < y THEN x ELSE y
Max2(x, y) == IF x > y THEN x ELSE y

WindowAtNoClip(i, j) == [col_off |-> i, row_off |-> j, width |-> tile_size, height |-> tile_size]

\* Window(col_off=i, row_off=j, width=w, height=h)
WindowAt(i, j) ==
    [col_off |-> i, row_off |-> j,
     width |-> Min2(tile_size, width - i), height |-> Min2(tile_size, height - j)]

WindowTransformNoShear(t, win) ==
    [t EXCEPT !.c = t.c + t.a * win.col_off, !.f = t.f + t.e * win.row_off]

\* src.window_transform(window): the origin moves to the world coordinate of
\* the window's top-left pixel, the other coefficients are kept
WindowTransform(t, win) ==
    [t EXCEPT !.c = WorldX(t, win.col_off, win.row_off),
              !.f = WorldY(t, win.col_off, win.row_off)]

\* src.read(window=window)
ReadWindow(win) == [pat |-> pat, col_off |-> win.col_off, row_off |-> win.row_off]

\* The file save() leaves at out_path: profile (height, width, transform)
\* and data; complete is FALSE when dst.write raised after the file was
\* created.
TileFile(win, complete) ==
    [name |-> TileName(win.col_off, win.row_off),
     width |-> win.width, height |-> win.height,
     transform |-> WindowTransform(transform, win),
     data |-> ReadWindow(win), complete |-> complete]

\* Writing a file replaces the file of that name
WriteFile(files, file) == {g \in files : g.name # file.name} \cup {file}

AdvanceRowMajor(c, r) == IF c < Len(Cols) THEN <<c + 1, r>> ELSE <<1, r + 1>>

\* for i in cols: for j in rows: the indices of the next iteration
Advance(c, r) == IF r < Len(Rows) THEN <<c, r + 1>> ELSE <<c + 1, 1>>

LoopDone(c, r) == c > Len(Cols) \/ r > Len(Rows)

SwallowFailure(c, r) ==
    LET nxt == Advance(c, r)
    IN  [status |-> IF LoopDone(nxt[1], nxt[2]) THEN "returned" ELSE "running",
         ci |-> nxt[1], ri |-> nxt[2], srcOpen |-> ~LoopDone(nxt[1], nxt[2])]

\* An exception in the loop body leaves the loops and the with block (which
\* closes src) and reaches the caller
PropagateFailure(c, r) == [status |-> "raised", ci |-> c, ri |-> r, srcOpen |-> FALSE]

\* The tile sizes a call is made with: a large raster is tiled at the default
\* size, a small one at every small size, zero and negative included
ArgTileSizes == IF width >= DefaultTileSize THEN {DefaultTileSize} ELSE (-1)..MaxTile

\* rasterio.open(self.filepath) raises
GenerateTilesOpenFail ==
    /\ gtStatus = "notcalled" /\ mtStatus = "notcalled"
    /\ \E ts \in ArgTileSizes : tile_size' = ts
    /\ folderExists' = TRUE
    /\ gtStatus' = "raised" /\ gtError' = "IOError" /\ failedAt' = 0
    /\ UNCHANGED <<ci, ri, srcOpen, windows, folder>>
    /\ UNCHANGED rasterVars /\ UNCHANGED mtVars

\* range(0, self.width, 0) raises ValueError
GenerateTilesZeroStep ==
    /\ gtStatus = "notcalled" /\ mtStatus = "notcalled"
    /\ 0 \in ArgTileSizes
    /\ tile_size' = 0
    /\ folderExists' = TRUE
    /\ gtStatus' = "raised" /\ gtError' = "ValueError" /\ failedAt' = 0
    /\ UNCHANGED <<ci, ri, srcOpen, windows, folder>>
    /\ UNCHANGED rasterVars /\ UNCHANGED mtVars

\* The call up to the first iteration of the loops
GenerateTilesBegin ==
    /\ gtStatus = "notcalled" /\ mtStatus = "notcalled"
    /\ \E ts \in ArgTileSizes \ {0} :
        /\ tile_size' = ts
        /\ LET empty == RangeLen(0, width, ts) = 0 \/ RangeLen(0, height, ts) = 0
           IN  /\ gtStatus' = IF empty THEN "returned" ELSE "running"
               /\ srcOpen' = ~empty
    /\ folderExists' = TRUE
    /\ ci' = 1 /\ ri' = 1
    /\ UNCHANGED <<gtError, failedAt, windows, folder>>
    /\ UNCHANGED rasterVars /\ UNCHANGED mtVars

\* One iteration of the loop body: window, read, profile, save
TileStep ==
    /\ gtStatus = "running"
    /\ ci \in 1..Len(Cols) /\ ri \in 1..Len(Rows)
    /\ LET win == WindowAt(Cols[ci], Rows[ri])
           nxt == Advance(ci, ri)
       IN  /\ windows' = Append(windows, win)
           /\ folder' = WriteFile(folder, TileFile(win, TRUE))
           /\ ci' = nxt[1] /\ ri' = nxt[2]
           /\ gtStatus' = IF LoopDone(nxt[1], nxt[2]) THEN "returned" ELSE "running"
           /\ srcOpen' = ~LoopDone(nxt[1], nxt[2])
    /\ UNCHANGED <<tile_size, gtError, failedAt, folderExists>>
    /\ UNCHANGED rasterVars /\ UNCHANGED mtVars

\* One iteration in which src.read ("read"), rasterio.open(out_path, "w")
\* ("open") or dst.write ("write") raises
TileFail ==
    /\ gtStatus = "running"
    /\ ci \in 1..Len(Cols) /\ ri \in 1..Len(Rows)
    /\ \E kind \in {"read", "open", "write"} :
        LET win == WindowAt(Cols[ci], Rows[ri])
            out == PropagateFailure(ci, ri)
        IN  /\ windows' = Append(windows, win)
            /\ folder' = IF kind = "write" THEN WriteFile(folder, TileFile(win, FALSE))
                         ELSE folder
            /\ gtError' = "IOError" /\ failedAt' = Len(windows) + 1
            /\ gtStatus' = out.status /\ ci' = out.ci /\ ri' = out.ri
            /\ srcOpen' = out.srcOpen
    /\ UNCHANGED <<tile_size, folderExists>>
    /\ UNCHANGED rasterVars /\ UNCHANGED mtVars

\* ---------------------------------------------------------- merge_tiles
\* A raster file that is in the folder before any call: w x h pixels of
\* pattern p, its top-left pixel at pixel (dx, dy) of the raster's grid
Foreign(t, stem, dx, dy, w, h, p) ==
    [name |-> PlainName(stem, Ext), width |-> w, height |-> h,
     transform |-> WindowTransform(t, [col_off |-> dx, row_off |-> dy]),
     data |-> [pat |-> p, col_off |-> 0, row_off |-> 0], complete |-> TRUE]

\* A file that is no raster
Notes(t) ==
    [name |-> PlainName("notes", <<".", "t", "x", "t">>), width |-> 0, height |-> 0,
     transform |-> t, data |-> [pat |-> 4, col_off |-> 0, row_off |-> 0],
     complete |-> TRUE]

\* What the tile folder can hold before any call: nothing, a file that is
\* no raster, two overlapping rasters, three overlapping rasters
FolderContents(t) ==
    { {}, {Notes(t)},
      {Foreign(t, "a", 0, 0, 2, 2, 3), Foreign(t, "b", 1, 0, 2, 2, 2)},
      {Foreign(t, "a", 0, 0, 2, 2, 3), Foreign(t, "b", 1, 0, 2, 2, 2),
       Foreign(t, "c", 0, 1, 2, 1, 1)} }

RECURSIVE DigitsValue(_)
DigitsValue(ds) ==
    IF ds = <<>> THEN 0 ELSE 10 * DigitsValue(SubSeq(ds, 1, Len(ds) - 1)) + ds[Len(ds)]

StemRank(stem) ==
    CASE stem = "a" -> 1 [] stem = "b" -> 2 [] stem = "c" -> 3 [] stem = "notes" -> 4
      [] OTHER -> 5

\* The alphabetical order of file names
NameLess(m, n) ==
    \/ StemRank(m.stem) < StemRank(n.stem)
    \/ /\ StemRank(m.stem) = StemRank(n.stem)
       /\ \/ DigitsValue(m.x) < DigitsValue(n.x)
          \/ DigitsValue(m.x) = DigitsValue(n.x) /\ DigitsValue(m.y) < DigitsValue(n.y)

RECURSIVE Sorted(_)
Sorted(S) ==
    IF S = {} THEN <<>>
    ELSE LET least == CHOOSE n \in S : \A m \in S \ {n} : NameLess(n, m)
         IN  <<least>> \o Sorted(S \ {least})

Reverse(s) == [k \in 1..Len(s) |-> s[Len(s) + 1 - k]]

Perms(S) ==
    {s \in [1..Cardinality(S) -> S] : \A i, j \in 1..Cardinality(S) : i # j => s[i] # s[j]}

\* glob.glob(os.path.join(input_folder, "*.tif")): the matching names in an
\* order the file system chooses (every order of up to MaxPerm names, the
\* alphabetical order and its reverse of more)
GlobOrders ==
    LET names == {g.name : g \in {g \in folder : GlobMatch(g.name)}}
    IN  IF Cardinality(names) <= MaxPerm THEN Perms(names)
        ELSE {Sorted(names), Reverse(Sorted(names))}

FileOf(name) == CHOOSE g \in folder : g.name = name

NoInputsNever(fps) == FALSE

\* if not filepaths
NoInputs(fps) == fps = <<>>

CloseOnlyLast(hs) ==
    [k \in 1..Len(hs) |-> IF k = Len(hs) THEN [hs[k] EXCEPT !.open = FALSE] ELSE hs[k]]

\* finally: for src in src_files_to_mosaic: src.close()
CloseHandles(hs) == [k \in 1..Len(hs) |-> [hs[k] EXCEPT !.open = FALSE]]

\* round(x / y)
RoundDiv(x, y) ==
    IF y > 0 THEN (2 * x + y) \div (2 * y) ELSE -((2 * x + (-y)) \div (2 * (-y)))

RECURSIVE SetMin(_)
SetMin(S) ==
    LET x == CHOOSE x \in S : TRUE
    IN  IF S = {x} THEN x ELSE Min2(x, SetMin(S \ {x}))

RECURSIVE SetMax(_)
SetMax(S) ==
    LET x == CHOOSE x \in S : TRUE
    IN  IF S = {x} THEN x ELSE Max2(x, SetMax(S \ {x}))

\* dataset.bounds of a dataset without rotation: left, bottom, right, top
Left(g) == g.transform.c
Right(g) == g.transform.c + g.transform.a * g.width
Top(g) == g.transform.f
Bottom(g) == g.transform.f + g.transform.e * g.height

Rotated(g) == g.transform.b # 0 \/ g.transform.d # 0

CopyLast(old, new) == new

\* merge's default method "first": a pixel of the mosaic is written only
\* while it still holds the fill value
CopyFirst(old, new) == IF old = NoData THEN new ELSE old

\* The mosaic after pasting datasets k..Len(fs) in that order, each at the
\* offset its bounds give in the output grid
RECURSIVE Paste(_, _, _, _, _, _, _)
Paste(dest, fs, k, dst_w, dst_n, res0, res1) ==
    IF k > Len(fs) THEN dest
    ELSE LET g == fs[k]
             coff == RoundDiv(Left(g) - dst_w, res0)
             roff == RoundDiv(dst_n - Top(g), res1)
             covers(x, y) == /\ x - coff \in 0..(g.width - 1)
                             /\ y - roff \in 0..(g.height - 1)
             next == [q \in DOMAIN dest |->
                        IF covers(q[1], q[2])
                        THEN CopyFirst(dest[q], DataAt(g.data, q[1] - coff, q[2] - roff))
                        ELSE dest[q]]
         IN  Paste(next, fs, k + 1, dst_w, dst_n, res0, res1)

\* rasterio.merge.merge(datasets) with its defaults, for datasets of one
\* resolution: the output covers the union of the bounds at the first
\* dataset's resolution, north-up.  The result is the set holding the mosaic,
\* or the empty set when merge raises (no dataset, a rotated dataset, an
\* output shape that is not positive).
Merge(fs) ==
    IF fs = <<>> \/ \E k \in 1..Len(fs) : Rotated(fs[k]) THEN {}
    ELSE LET all == {fs[k] : k \in 1..Len(fs)}
             xs == {Left(g) : g \in all} \cup {Right(g) : g \in all}
             ys == {Top(g) : g \in all} \cup {Bottom(g) : g \in all}
             dst_w == SetMin(xs)
             dst_e == SetMax(xs)
             dst_s == SetMin(ys)
             dst_n == SetMax(ys)
             res0 == fs[1].transform.a
             res1 == -fs[1].transform.e
             out_w == RoundDiv(dst_e - dst_w, res0)
             out_h == RoundDiv(dst_n - dst_s, res1)
         IN  IF out_w < 1 \/ out_h < 1 THEN {}
             ELSE {[width |-> out_w, height |-> out_h,
                    transform |-> Affine(res0, 0, dst_w, 0, -res1, dst_n),
                    pixels |-> Paste([q \in (0..(out_w - 1)) \X (0..(out_h - 1)) |-> NoData],
                                     fs, 1, dst_w, dst_n, res0, res1)]}

\* The file rasterio.open(output_path, "w", **out_meta) and dest.write leave
OutFile(m, complete) ==
    [width |-> m.width, height |-> m.height, transform |-> m.transform,
     pixels |-> m.pixels, complete |-> complete]

\* The folder yields no matching file: return
MergeTilesEmpty ==
    /\ mtStatus = "notcalled" /\ gtStatus # "running"
    /\ \E fps \in GlobOrders :
        /\ NoInputs(fps)
        /\ filepaths' = fps
    /\ mtStatus' = "returned"
    /\ UNCHANGED <<handles, mtError, logged, output, folderExists, folder>>
    /\ UNCHANGED rasterVars /\ UNCHANGED gtVars

\* The call up to the loop that opens the inputs
MergeTilesBegin ==
    /\ mtStatus = "notcalled" /\ gtStatus # "running"
    /\ \E fps \in GlobOrders :
        /\ ~NoInputs(fps)
        /\ filepaths' = fps
    /\ mtStatus' = "opening"
    /\ UNCHANGED <<handles, mtError, logged, output, folderExists, folder>>
    /\ UNCHANGED rasterVars /\ UNCHANGED gtVars

\* src = rasterio.open(fp); src_files_to_mosaic.append(src)
MergeOpen ==
    /\ mtStatus = "opening" /\ Len(handles) < Len(filepaths)
    /\ handles' = Append(handles, [name |-> filepaths[Len(handles) + 1], open |-> TRUE])
    /\ UNCHANGED <<mtStatus, filepaths, mtError, logged, output, folderExists, folder>>
    /\ UNCHANGED rasterVars /\ UNCHANGED gtVars

\* rasterio.open(fp) raises: except prints, finally closes
MergeOpenFail ==
    /\ mtStatus = "opening" /\ Len(handles) < Len(filepaths)
    /\ mtError' = "open-input" /\ logged' = TRUE
    /\ handles' = CloseHandles(handles)
    /\ mtStatus' = "returned"
    /\ UNCHANGED <<filepaths, output, folderExists, folder>>
    /\ UNCHANGED rasterVars /\ UNCHANGED gtVars

\* merge, the output metadata and the write of the mosaic, then finally.
\* merge raises by itself ("merge"), or an I/O call raises: a read inside
\* merge ("read"), rasterio.open(output_path, "w") ("open-output"),
\* dest.write ("write", the output file exists and is incomplete).
MergeFinish ==
    /\ mtStatus = "opening" /\ Len(handles) = Len(filepaths)
    /\ LET fs == [k \in 1..Len(handles) |-> FileOf(handles[k].name)]
           res == Merge(fs)
           unreadable == \E k \in 1..Len(fs) : ~fs[k].complete
       IN  \/ /\ res = {} \/ unreadable
              /\ mtError' = "merge" /\ logged' = TRUE
              /\ output' = output
           \/ /\ res # {} /\ ~unreadable
              /\ \E outcome \in {"ok", "read", "open-output", "write"} :
                  /\ mtError' = IF outcome = "ok" THEN "none" ELSE outcome
                  /\ logged' = (outcome # "ok")
                  /\ output' = CASE outcome = "ok" -> {OutFile(r, TRUE) : r \in res}
                                 [] outcome = "write" -> {OutFile(r, FALSE) : r \in res}
                                 [] OTHER -> output
    /\ handles' = CloseHandles(handles)
    /\ mtStatus' = "returned"
    /\ UNCHANGED <<filepaths, folderExists, folder>>
    /\ UNCHANGED rasterVars /\ UNCHANGED gtVars

\* --------------------------------------------------------- specification
InitCalls ==
    /\ tile_size = DefaultTileSize
    /\ gtStatus = "notcalled" /\ ci = 1 /\ ri = 1 /\ gtError = "none" /\ failedAt = 0
    /\ srcOpen = FALSE /\ windows = <<>>
    /\ mtStatus = "notcalled" /\ filepaths = <<>> /\ handles = <<>>
    /\ mtError = "none" /\ logged = FALSE /\ output = {}

InitRaster(Dims) ==
    /\ width \in Dims /\ height \in Dims
    /\ transform \in Transforms
    /\ pat \in {0, 1}
    /\ folderExists \in BOOLEAN
    /\ preexisting \in (IF folderExists THEN FolderContents(transform) ELSE {{}})
    /\ folder = preexisting

Init == InitRaster(1..MaxDim) /\ InitCalls

\* The rasters of Init and the 2500 x 2500 raster
InitEdge == InitRaster((1..MaxDim) \cup {2500}) /\ (width > MaxDim <=> height > MaxDim) /\ InitCalls

NextTiles ==
    \/ GenerateTilesOpenFail
    \/ GenerateTilesZeroStep
    \/ GenerateTilesBegin
    \/ TileStep
    \/ TileFail

Next ==
    \/ GenerateTilesOpenFail
    \/ GenerateTilesZeroStep
    \/ GenerateTilesBegin
    \/ TileStep
    \/ TileFail
    \/ MergeTilesEmpty
    \/ MergeTilesBegin
    \/ MergeOpen
    \/ MergeOpenFail
    \/ MergeFinish

Spec == Init /\ [][Next]_vars

SpecEdge == InitEdge /\ [][NextTiles]_vars

\* ----------------------------------------------------------- properties
InWindow(win, x, y) ==
    /\ win.col_off <= x /\ x < win.col_off + win.width
    /\ win.row_off <= y /\ y < win.row_off + win.height

\* C1: for tile_size > 0 the windows generate_tiles enumerates tile the
\* rectangle [0,width) x [0,height) exactly: no window reaches outside it, no
\* pixel is in two windows at any time, and once the call has returned every
\* pixel is in exactly one window.
C1_WindowsTileExactly ==
    /\ \A k \in 1..Len(windows) :
        /\ 0 <= windows[k].col_off /\ windows[k].col_off + windows[k].width <= width
        /\ 0 <= windows[k].row_off /\ windows[k].row_off + windows[k].height <= height
    /\ \A x \in 0..(width - 1), y \in 0..(height - 1) :
        LET hits == {k \in 1..Len(windows) : InWindow(windows[k], x, y)}
        IN  /\ Cardinality(hits) <= 1
            /\ (gtStatus = "returned" /\ tile_size > 0) => Cardinality(hits) = 1

C1_Witness ==
    /\ gtStatus = "returned" /\ tile_size = 2 /\ width = 3 /\ height = 3
    /\ Len(windows) = 4

\* The windows come in column-major-outer order, striding tile_size from 0
ColumnMajorOrder ==
    /\ Len(windows) > 0 => (windows[1].col_off = 0 /\ windows[1].row_off = 0)
    /\ \A k \in 1..(Len(windows) - 1) :
        LET u == windows[k]
            v == windows[k + 1]
        IN  \/ /\ v.col_off = u.col_off
               /\ v.row_off = u.row_off + tile_size
            \/ /\ v.col_off = u.col_off + tile_size
               /\ v.row_off = 0
               /\ u.row_off + tile_size >= height

Sizes == [k \in 1..Len(windows) |-> <<windows[k].width, windows[k].height>>]

IsEdgeExample ==
    gtStatus = "returned" /\ width = 2500 /\ height = 2500 /\ tile_size = 1024

\* C2 (as amended): the windows come in column-major-outer order, striding
\* tile_size from 0 on both axes, and a 2500 x 2500 raster at tile_size 1024
\* gives nine windows whose sizes, width x height, are in order 1024x1024,
\* 1024x1024, 1024x452, 1024x1024, 1024x1024, 1024x452, 452x1024, 452x1024,
\* 452x452.
C2_ColumnMajorSizes ==
    /\ ColumnMajorOrder
    /\ IsEdgeExample =>
        Sizes = << <<1024, 1024>>, <<1024, 1024>>, <<1024, 452>>,
                   <<1024, 1024>>, <<1024, 1024>>, <<1024, 452>>,
                   <<452, 1024>>, <<452, 1024>>, <<452, 452>> >>

C2_Witness == IsEdgeExample /\ Len(windows) = 9

\* C2 as first stated: the same order, with the sizes 1024x1024, 1024x1024,
\* 452x1024, 1024x1024, 1024x1024, 452x1024, 1024x452, 1024x452, 452x452
C2_OriginalSizes ==
    /\ ColumnMajorOrder
    /\ IsEdgeExample =>
        Sizes = << <<1024, 1024>>, <<1024, 1024>>, <<452, 1024>>,
                   <<1024, 1024>>, <<1024, 1024>>, <<452, 1024>>,
                   <<1024, 452>>, <<1024, 452>>, <<452, 452>> >>

\* C3: every window has its offset inside the raster, ends inside the raster,
\* is at most tile_size and at least 1 in each dimension, and is smaller than
\* tile_size in a dimension only where it ends at the raster's edge.
C3_WindowsClipped ==
    \A k \in 1..Len(windows) :
        LET u == windows[k]
        IN  /\ tile_size > 0
            /\ 0 <= u.col_off /\ u.col_off < width
            /\ 0 <= u.row_off /\ u.row_off < height
            /\ u.col_off + u.width <= width /\ u.row_off + u.height <= height
            /\ 1 <= u.width /\ u.width <= tile_size
            /\ 1 <= u.height /\ u.height <= tile_size
            /\ u.width < tile_size => u.col_off + u.width = width
            /\ u.height < tile_size => u.row_off + u.height = height
            /\ u.width = tile_size \/ u.width = width - u.col_off
            /\ u.height = tile_size \/ u.height = height - u.row_off

C3_Witness ==
    \E k \in 1..Len(windows) :
        /\ windows[k].width < tile_size /\ windows[k].height = tile_size
        /\ windows[k].col_off > 0

\* The tile files of the windows enumerated so far
TileFilesOf(k) ==
    {g \in folder : g.name = TileName(windows[k].col_off, windows[k].row_off)}

\* C4: the transform in a tile's profile has the parent's a, b, d, e and the
\* origin (c + a*offsetX + b*offsetY, f + d*offsetX + e*offsetY), the world
\* coordinate of the parent's pixel (offsetX, offsetY).
C4_TileTransform ==
    \A k \in 1..Len(windows) : \A g \in TileFilesOf(k) :
        LET ox == windows[k].col_off
            oy == windows[k].row_off
        IN  /\ g.transform.a = transform.a /\ g.transform.b = transform.b
            /\ g.transform.d = transform.d /\ g.transform.e = transform.e
            /\ g.transform.c = transform.c + transform.a * ox + transform.b * oy
            /\ g.transform.f = transform.f + transform.d * ox + transform.e * oy

C4_Witness ==
    \E k \in 1..Len(windows) : \E g \in TileFilesOf(k) :
        /\ windows[k].col_off > 0 /\ windows[k].row_off > 0
        /\ transform.b # 0 /\ transform.d # 0

\* The tile files generate_tiles has written
WrittenTiles == {g \in folder : g.name.stem = "tile"}

\* C5 (the claim): a call with tile_size <= 0 ends by raising and writes no
\* tile file.
C5_NonPositiveTileSizeFails ==
    (gtStatus \in {"returned", "raised"} /\ tile_size <= 0) =>
        (gtStatus = "raised" /\ WrittenTiles = {})

\* The inputs of merge_tiles in the order they were opened
Inputs == [k \in 1..Len(filepaths) |-> FileOf(filepaths[k])]

\* The pixels of input g that lie at the world position of pixel (X, Y) of
\* the mosaic m
Under(m, g, X, Y) ==
    {q \in (0..(g.width - 1)) \X (0..(g.height - 1)) :
        /\ WorldX(g.transform, q[1], q[2]) = WorldX(m.transform, X, Y)
        /\ WorldY(g.transform, q[1], q[2]) = WorldY(m.transform, X, Y)}

ValueUnder(m, g, X, Y) ==
    LET q == CHOOSE q \in Under(m, g, X, Y) : TRUE
    IN  DataAt(g.data, q[1], q[2])

Mosaics == {m \in output : mtStatus = "returned" /\ m.complete}

MosaicPixels(m) == (0..(m.width - 1)) \X (0..(m.height - 1))

C7_HandlesClosed ==
    mtStatus = "returned" => \A k \in 1..Len(handles) : ~handles[k].open

\* The open of the third of three inputs failed
C7_Witness ==
    /\ mtStatus = "returned" /\ mtError = "open-input"
    /\ Len(filepaths) = 3 /\ Len(handles) = 2

\* C8: when the folder yields no matching file, merge_tiles ends at once
\* without an error, opens no handle and leaves the folder and the output
\* path as they were, with no output file.
C8_EmptyMergeIsNoOp ==
    [][(/\ mtStatus = "notcalled" /\ mtStatus' # "notcalled"
        /\ {g \in folder : GlobMatch(g.name)} = {})
       => (/\ mtStatus' = "returned" /\ mtError' = "none" /\ ~logged'
           /\ handles' = <<>> /\ output' = {}
           /\ UNCHANGED <<folder, folderExists>>)]_vars

C8_Witness ==
    /\ mtStatus = "returned" /\ filepaths = <<>> /\ folder # {}
    /\ handles = <<>> /\ output = {}

\* C9 (the claim): generate_tiles with tile_size > 0 into an empty folder,
\* then merge_tiles over the tiles in the order they were produced, no I/O
\* call failing, leaves a mosaic with the raster's width, height, transform
\* and pixel values.
C9_RoundTrip ==
    (/\ preexisting = {} /\ gtStatus = "returned" /\ tile_size > 0
     /\ mtStatus = "returned"
     /\ mtError \notin {"open-input", "read", "open-output", "write"}
     /\ filepaths = [k \in 1..Len(windows) |->
                        TileName(windows[k].col_off, windows[k].row_off)])
    => \E m \in output :
        /\ m.complete
        /\ m.width = width /\ m.height = height /\ m.transform = transform
        /\ \A q \in (0..(width - 1)) \X (0..(height - 1)) :
            m.pixels[q] = Pixel(pat, q[1], q[2])

\* The round trip of C9 for a north-up raster (b = d = 0, a > 0, e < 0)
RoundTripNorthUp ==
    (transform.b = 0 /\ transform.d = 0 /\ transform.a > 0 /\ transform.e < 0)
        => C9_RoundTrip

====
